---- MODULE Spec2Model ----
(***************************************************************************)
(* A model of qubr, a typed SQL statement builder (Go).                    *)
(*                                                                         *)
(* Strings that the code takes apart (table names, field names, type      *)
(* names) are sequences of one-character strings.  A rendered query text   *)
(* is a sequence of pieces whose concatenation is the Go string; every     *)
(* placeholder "?" is a piece of its own.                                  *)
(*                                                                         *)
(* A builder is a Go struct value.  Its fieldOperationTree field is the   *)
(* root node, held by value; the nodes behind the root's and/or pointers   *)
(* live on the heap, modelled by the variable heap (address = index,       *)
(* 0 = nil).                                                               *)
(*                                                                         *)
(* The *sql.DB handle the caller passes to Exec, Query and GetOne is the   *)
(* variable db: the calls it received, what it answered and what the       *)
(* terminal operation returned.                                            *)
(***************************************************************************)
EXTENDS Integers, Sequences, FiniteSets, TLC

VARIABLES heap, bs, hist, th, db

vars == <<heap, bs, hist, th, db>>

---------------------------------------------------------------------------
(* Bounds of the model.                                                    *)

\* Fluent calls made in one run of the single-chain specification.
MaxCalls == 4

\* Fluent calls made in one run of the branching specification.
MaxBranchCalls == 4

\* Length of the table names passed to From/Into in the table-name
\* specification.
MaxNameLen == 3

\* Fluent calls made before the terminal operation in the execution
\* specification, and rows the cursor of a query delivers.
MaxExecCalls == 3
MaxRows == 2

\* Values passed to In / NotIn in the predicate specification.
MaxValues == 2

\* Heap nodes of the chains the tree specification starts from, and And/Or
\* calls it makes on them.
MaxNodes == 3
MaxTreeCalls == 2

\* And/Or calls that build the shared base of the concurrent specification.
MaxBaseLinks == 2

---------------------------------------------------------------------------
(* Values of type any.                                                     *)

AnyNil == [t |-> "nil", n |-> 0, s |-> <<>>]
AnyInt(n) == [t |-> "int", n |-> n, s |-> <<>>]
AnyUint64(n) == [t |-> "uint64", n |-> n, s |-> <<>>]
AnySlice(elems) == [t |-> "[]any", n |-> 0, s |-> elems]
\* A slice of another type than []any, e.g. []int.
AnyIntSlice(elems) == [t |-> "[]int", n |-> 0, s |-> elems]

\* The type assertion  v.([]any)  of queryData: (argArr, isArr).
AssertSlice(v) == [argArr |-> IF v.t = "[]any" THEN v.s ELSE <<>>,
                   isArr |-> v.t = "[]any"]

---------------------------------------------------------------------------
(* Operator.                                                               *)

OperatorEqual == 0
OperatorNotEqual == 1
OperatorGreaterThan == 2
OperatorLessThan == 3
OperatorGreaterThanOrEqual == 4
OperatorLessThanOrEqual == 5
OperatorIn == 6
OperatorNotIn == 7

OperatorString(o) ==
    CASE o = OperatorEqual -> "="
      [] o = OperatorNotEqual -> "<>"
      [] o = OperatorGreaterThan -> ">"
      [] o = OperatorLessThan -> "<"
      [] o = OperatorGreaterThanOrEqual -> ">="
      [] o = OperatorLessThanOrEqual -> "<="
      [] o = OperatorIn -> "IN"
      [] o = OperatorNotIn -> "NOT IN"
      [] OTHER -> ""

---------------------------------------------------------------------------
(* FieldOperation.                                                         *)

FieldOperation(o, field, v) == [Operator |-> o, FieldName |-> field, ValueRaw |-> v]

Equal(field, v) == FieldOperation(OperatorEqual, field, v)
NotEqual(field, v) == FieldOperation(OperatorNotEqual, field, v)
GreaterThan(field, v) == FieldOperation(OperatorGreaterThan, field, v)
LessThan(field, v) == FieldOperation(OperatorLessThan, field, v)
GreaterThanOrEqual(field, v) == FieldOperation(OperatorGreaterThanOrEqual, field, v)
LessThanOrEqual(field, v) == FieldOperation(OperatorLessThanOrEqual, field, v)
In(field, values) == FieldOperation(OperatorIn, field, AnySlice(values))
NotIn(field, values) == FieldOperation(OperatorNotIn, field, AnySlice(values))

\* strings.Repeat("?, ", n), every "?" a piece of its own.
RECURSIVE RepeatPoints(_)
RepeatPoints(n) == IF n = 0 THEN <<>> ELSE <<"?", ", ">> \o RepeatPoints(n - 1)

\* strings.TrimSuffix(s, suffix) for a one-piece suffix.
TrimSuffix(s, suffix) ==
    IF Len(s) > 0 /\ s[Len(s)] = suffix THEN SubSeq(s, 1, Len(s) - 1) ELSE s

\* A queryData that leaves the trailing ", " in the list of placeholders.
queryData_NoTrim(f) ==
    LET a == AssertSlice(f.ValueRaw)
        scalar == ~a.isArr /\ f.Operator # OperatorIn /\ f.Operator # OperatorNotIn
        placeholders == IF scalar
                        THEN <<"?">>
                        ELSE <<"(">> \o RepeatPoints(Len(a.argArr)) \o <<")">>
        args == IF scalar THEN <<f.ValueRaw>> ELSE a.argArr
    IN [query |-> <<"\"">> \o f.FieldName \o <<"\"", " ", OperatorString(f.Operator), " ">>
                    \o placeholders,
        args |-> args]

\* A queryData that writes one placeholder whatever the number of values.
queryData_OnePoint(f) ==
    LET a == AssertSlice(f.ValueRaw)
        scalar == ~a.isArr /\ f.Operator # OperatorIn /\ f.Operator # OperatorNotIn
        args == IF scalar THEN <<f.ValueRaw>> ELSE a.argArr
    IN [query |-> <<"\"">> \o f.FieldName \o <<"\"", " ", OperatorString(f.Operator), " ">>
                    \o <<"?">>,
        args |-> args]

queryData(f) ==
    LET a == AssertSlice(f.ValueRaw)
        scalar == ~a.isArr /\ f.Operator # OperatorIn /\ f.Operator # OperatorNotIn
        placeholders == IF scalar
                        THEN <<"?">>
                        ELSE <<"(">> \o TrimSuffix(RepeatPoints(Len(a.argArr)), ", ") \o <<")">>
        args == IF scalar THEN <<f.ValueRaw>> ELSE a.argArr
    IN [query |-> <<"\"">> \o f.FieldName \o <<"\"", " ", OperatorString(f.Operator), " ">>
                    \o placeholders,
        args |-> args]

---------------------------------------------------------------------------
(* fieldOperationTree.                                                     *)

Node(op, or, and) == [op |-> op, or |-> or, and |-> and]

emptyFieldOperationTree == Node(FieldOperation(0, <<>>, AnyNil), 0, 0)

\* The walk of buildQuery from a node whose links are (and, or): the pieces
\* and arguments of every node below it, and-link first.
\* A walk that follows the or-link before the and-link.
RECURSIVE buildQueryWalk_OrFirst(_, _, _)
buildQueryWalk_OrFirst(h, and, or) ==
    IF and = 0 /\ or = 0
    THEN [query |-> <<>>, args |-> <<>>]
    ELSE LET a == IF or # 0 THEN or ELSE and
             d == queryData(h[a].op)
             rest == buildQueryWalk_OrFirst(h, h[a].and, h[a].or)
         IN [query |-> <<IF or # 0 THEN " OR " ELSE " AND ">> \o d.query \o rest.query,
             args |-> d.args \o rest.args]

RECURSIVE buildQueryWalk(_, _, _)
buildQueryWalk(h, and, or) ==
    IF and = 0 /\ or = 0
    THEN [query |-> <<>>, args |-> <<>>]
    ELSE LET a == IF and # 0 THEN and ELSE or
             d == queryData(h[a].op)
             rest == buildQueryWalk(h, h[a].and, h[a].or)
         IN [query |-> <<IF and # 0 THEN " AND " ELSE " OR ">> \o d.query \o rest.query,
             args |-> d.args \o rest.args]

buildQuery(t, h) ==
    IF t = emptyFieldOperationTree
    THEN [query |-> <<>>, args |-> <<>>]
    ELSE LET d == queryData(t.op)
             rest == buildQueryWalk(h, t.and, t.or)
         IN [query |-> <<" WHERE ">> \o d.query \o rest.query,
             args |-> d.args \o rest.args]

\* A walk that follows and-links only.
RECURSIVE appendWalk_AndOnly(_, _)
appendWalk_AndOnly(h, a) ==
    IF h[a].and # 0 THEN appendWalk_AndOnly(h, h[a].and) ELSE a

\* The loop of appendToFieldOperationTree from heap node a: the address of
\* the node it stops at.
RECURSIVE appendWalk(_, _)
appendWalk(h, a) ==
    IF h[a].and # 0 THEN appendWalk(h, h[a].and)
    ELSE IF h[a].or # 0 THEN appendWalk(h, h[a].or)
    ELSE a

\* An append that allocates two nodes for the one predicate, the second
\* behind the and-link of the first.
appendToFieldOperationTree_Twice(t, h, link, op) ==
    IF t = emptyFieldOperationTree
    THEN [err |-> "ErrMissingWhereClause", tree |-> t, heap |-> h]
    ELSE LET new == Len(h) + 1
             h1 == h \o <<Node(op, 0, new + 1), Node(op, 0, 0)>>
             first == IF t.and # 0 THEN t.and ELSE t.or
         IN IF first = 0
            THEN [err |-> "nil",
                  tree |-> IF link = "and" THEN [t EXCEPT !.and = new]
                                           ELSE [t EXCEPT !.or = new],
                  heap |-> h1]
            ELSE LET next == appendWalk(h, first)
                 IN [err |-> "nil",
                     tree |-> t,
                     heap |-> IF link = "and" THEN [h1 EXCEPT ![next].and = new]
                                              ELSE [h1 EXCEPT ![next].or = new]]

\* appendToFieldOperationTree on the root t (the callee's own copy) with the
\* assignment  next.<link> = &fieldOperationTree{op: op} : the error, the
\* root and the heap afterwards.
appendToFieldOperationTree(t, h, link, op) ==
    IF t = emptyFieldOperationTree
    THEN [err |-> "ErrMissingWhereClause", tree |-> t, heap |-> h]
    ELSE LET new == Len(h) + 1
             h1 == Append(h, Node(op, 0, 0))
             first == IF t.and # 0 THEN t.and ELSE t.or
         IN IF first = 0
            THEN [err |-> "nil",
                  tree |-> IF link = "and" THEN [t EXCEPT !.and = new]
                                           ELSE [t EXCEPT !.or = new],
                  heap |-> h1]
            ELSE LET next == appendWalk(h, first)
                 IN [err |-> "nil",
                     tree |-> t,
                     heap |-> IF link = "and" THEN [h1 EXCEPT ![next].and = new]
                                              ELSE [h1 EXCEPT ![next].or = new]]

---------------------------------------------------------------------------
(* Errors.                                                                 *)

Err(e) == [e |-> e, name |-> <<>>]
NoErr == Err("nil")
ErrTableNameAlreadySet == Err("ErrTableNameAlreadySet")
ErrDoubleWhereClause == Err("ErrDoubleWhereClause")
ErrMissingWhereClause == Err("ErrMissingWhereClause")
ErrLimitAlreadySet == Err("ErrLimitAlreadySet")
ErrNoInsertValues == Err("ErrNoInsertValues")
ErrNoSetStatement == Err("ErrNoSetStatement")
ErrNoRows == Err("ErrNoRows")
ErrInvalidTableName(s) == [e |-> "ErrInvalidTableName", name |-> s]

---------------------------------------------------------------------------
(* Record types: what reflect reports of the type parameter T.             *)

Field(name, exported, hasTag, dbName) ==
    [Name |-> name, Exported |-> exported, HasTag |-> hasTag, Tag |-> dbName]

TypeNames == {"bunny", "pet"}

\* reflect.Type.Name()
TypeName(T) ==
    CASE T = "bunny" -> <<"b", "u", "n", "n", "y">>
      [] T = "pet" -> <<"p", "e", "t">>

\* type bunny struct { Name string; EarLength float64 }
\* type pet struct { age int64; Name string `db:"pet_name"` }
TypeFields(T) ==
    CASE T = "bunny" -> << Field(<<"N">>, TRUE, FALSE, <<>>),
                           Field(<<"E">>, TRUE, FALSE, <<>>) >>
      [] T = "pet" -> << Field(<<"a">>, FALSE, FALSE, <<>>),
                         Field(<<"N">>, TRUE, TRUE, <<"p", "n">>) >>

\* A column name that ignores the db tag.
structFieldName_FieldName(field) == field.Name

structFieldName(field) == IF field.HasTag THEN field.Tag ELSE field.Name

---------------------------------------------------------------------------
(* tableName.                                                              *)

\* forType = "" is the nil reflect.Type.
TableName(forType, schema, name) ==
    [forType |-> forType, schema |-> schema, tableName |-> name]

\* strings.Split(s, ".")
RECURSIVE Split(_)
Split(s) ==
    IF \E i \in 1..Len(s) : s[i] = "."
    THEN LET i == CHOOSE k \in 1..Len(s) :
                      s[k] = "." /\ \A m \in 1..(k - 1) : s[m] # "."
         IN <<SubSeq(s, 1, i - 1)>> \o Split(SubSeq(s, i + 1, Len(s)))
    ELSE <<s>>

\* A parse that accepts any number of separators and takes the first and
\* the last part.
newTableNameFromString_AnyParts(s) ==
    LET parts == Split(s)
    IN IF s = <<>>
       THEN [t |-> TableName("", <<>>, <<>>), err |-> ErrInvalidTableName(s)]
       ELSE [t |-> TableName("",
                             IF Len(parts) > 1 THEN parts[1] ELSE <<>>,
                             parts[Len(parts)]),
             err |-> NoErr]

newTableNameFromString(s) ==
    LET parts == Split(s)
    IN IF s = <<>> \/ Len(parts) > 2
       THEN [t |-> TableName("", <<>>, <<>>), err |-> ErrInvalidTableName(s)]
       ELSE [t |-> TableName("",
                             IF Len(parts) > 1 THEN parts[1] ELSE <<>>,
                             parts[Len(parts)]),
             err |-> NoErr]

\* A rendering that leaves the schema out.
tableNameString_TableOnly(t) ==
    IF t.schema = <<>> /\ t.tableName = <<>>
    THEN IF t.forType = ""
         THEN [query |-> <<>>, panic |-> TRUE]
         ELSE [query |-> <<"\"">> \o TypeName(t.forType) \o <<"\"">>, panic |-> FALSE]
    ELSE [query |-> <<"\"">> \o t.tableName \o <<"\"">>, panic |-> FALSE]

\* tableName.String(): the pieces, or a panic when forType is nil and its
\* Name() is called.
tableNameString(t) ==
    IF t.schema = <<>> /\ t.tableName = <<>>
    THEN IF t.forType = ""
         THEN [query |-> <<>>, panic |-> TRUE]
         ELSE [query |-> <<"\"">> \o TypeName(t.forType) \o <<"\"">>, panic |-> FALSE]
    ELSE IF t.schema # <<>>
    THEN [query |-> <<"\"">> \o t.schema \o <<"\"", ".", "\"">> \o t.tableName \o <<"\"">>,
          panic |-> FALSE]
    ELSE [query |-> <<"\"">> \o t.tableName \o <<"\"">>, panic |-> FALSE]

---------------------------------------------------------------------------
(* The builders.  One record shape serves the four struct types; a field   *)
(* a kind does not have keeps its zero value.  The field from is           *)
(* InsertBuilder's into; T is the type parameter.                          *)

Kinds == {"select", "delete", "update", "insert"}

NoLimit == [set |-> FALSE, n |-> 0]
LimitOf(n) == [set |-> TRUE, n |-> n]

NoValue == [set |-> FALSE, v |-> <<>>]
ValueOf(r) == [set |-> TRUE, v |-> r]

\* Select[T](), Delete[T](), Update[T](), Insert[T]()
NewBuilder(kind, T) ==
    [kind |-> kind,
     T |-> T,
     from |-> TableName(T, <<>>, <<>>),
     fieldOperationTree |-> emptyFieldOperationTree,
     limit |-> NoLimit,
     literalValue |-> NoValue,
     literalValues |-> <<>>,
     err |-> NoErr]

\* From (Select, Delete) and Into (Update, Insert)
From(b, s) ==
    IF b.from.schema # <<>> /\ b.from.tableName # <<>>
    THEN [b EXCEPT !.err = ErrTableNameAlreadySet]
    ELSE LET r == newTableNameFromString(s)
         IN IF r.err # NoErr
            THEN [b EXCEPT !.err = r.err]
            ELSE [b EXCEPT !.from = r.t]

\* A Where that records the error and stores the predicate all the same.
Where_StoresAnyway(b, op) ==
    IF b.fieldOperationTree # emptyFieldOperationTree
    THEN [b EXCEPT !.err = ErrDoubleWhereClause, !.fieldOperationTree.op = op]
    ELSE [b EXCEPT !.fieldOperationTree.op = op]

Where(b, op) ==
    IF b.fieldOperationTree # emptyFieldOperationTree
    THEN [b EXCEPT !.err = ErrDoubleWhereClause]
    ELSE [b EXCEPT !.fieldOperationTree.op = op]

\* And and Or: the builder returned and the heap afterwards.
AndOr(b, h, link, op) ==
    LET r == appendToFieldOperationTree(b.fieldOperationTree, h, link, op)
    IN [b |-> IF r.err # "nil"
              THEN [b EXCEPT !.err = Err(r.err)]
              ELSE [b EXCEPT !.fieldOperationTree = r.tree],
        heap |-> r.heap]

And(b, h, op) == AndOr(b, h, "and", op)

Or(b, h, op) == AndOr(b, h, "or", op)

Limit(b, n) ==
    IF b.limit.set
    THEN [b EXCEPT !.err = ErrLimitAlreadySet]
    ELSE [b EXCEPT !.limit = LimitOf(n)]

\* A Values that adds the records to those of earlier calls.
Values_Appends(b, ts) == [b EXCEPT !.literalValues = @ \o ts]

Values(b, ts) == [b EXCEPT !.literalValues = ts]

SetStruct(b, t) == [b EXCEPT !.literalValue = ValueOf(t)]

---------------------------------------------------------------------------
(* BuildQuery.  The result is (query, args, err), or a panic.              *)

Built(query, args) == [query |-> query, args |-> args, err |-> NoErr, panic |-> FALSE]
\* A build that returns the text it had assembled so far beside the error.
Failed_KeepsText(err) == [query |-> <<"SELECT ">>, args |-> <<>>, err |-> err, panic |-> FALSE]

Failed(err) == [query |-> <<>>, args |-> <<>>, err |-> err, panic |-> FALSE]
Panicked == [query |-> <<>>, args |-> <<>>, err |-> NoErr, panic |-> TRUE]

\* The fields of T that are exported, in declaration order.
RECURSIVE ExportedIndexes(_, _)
ExportedIndexes(fields, i) ==
    IF i > Len(fields) THEN <<>>
    ELSE (IF fields[i].Exported THEN <<i>> ELSE <<>>) \o ExportedIndexes(fields, i + 1)

RECURSIVE Flatten(_)
Flatten(ss) == IF ss = <<>> THEN <<>> ELSE Head(ss) \o Flatten(Tail(ss))

\* A limit clause whose value is not appended to the arguments.
LimitClause_ArgDropped(b) ==
    IF b.limit.set
    THEN [query |-> <<" LIMIT ", "?">>, args |-> <<>>]
    ELSE [query |-> <<>>, args |-> <<>>]

\* The trailing  " LIMIT ?"  and its argument.
LimitClause(b) ==
    IF b.limit.set
    THEN [query |-> <<" LIMIT ", "?">>, args |-> <<AnyUint64(b.limit.n)>>]
    ELSE [query |-> <<>>, args |-> <<>>]

SelectBuildQuery(b, h) ==
    IF b.err # NoErr THEN Failed(b.err)
    ELSE LET fs == TypeFields(b.T)
             ex == ExportedIndexes(fs, 1)
             fields == TrimSuffix(
                 Flatten([k \in 1..Len(ex) |-> <<"\"">> \o fs[ex[k]].Name \o <<"\"", ", ">>]),
                 ", ")
             name == tableNameString(b.from)
             where == buildQuery(b.fieldOperationTree, h)
             limit == LimitClause(b)
         IN IF name.panic THEN Panicked
            ELSE Built(<<"SELECT ">> \o fields \o <<" FROM ">> \o name.query
                           \o where.query \o limit.query \o <<";">>,
                       where.args \o limit.args)

DeleteBuildQuery(b, h) ==
    IF b.err # NoErr THEN Failed(b.err)
    ELSE LET name == tableNameString(b.from)
             where == buildQuery(b.fieldOperationTree, h)
             limit == LimitClause(b)
         IN IF name.panic THEN Panicked
            ELSE Built(<<"DELETE FROM ">> \o name.query \o where.query
                           \o limit.query \o <<";">>,
                       where.args \o limit.args)

\* An Update build that puts the predicate fragment and its arguments before
\* the SET clause and its arguments.
UpdateBuildQuery_WhereFirst(b, h) ==
    IF b.err # NoErr THEN Failed(b.err)
    ELSE LET name == tableNameString(b.from)
         IN IF name.panic THEN Panicked
            ELSE IF ~b.literalValue.set THEN Failed(ErrNoSetStatement)
            ELSE LET fs == TypeFields(b.T)
                     ex == ExportedIndexes(fs, 1)
                     setStmt == TrimSuffix(
                         <<" SET ">> \o
                         Flatten([k \in 1..Len(ex) |->
                                    <<"\"">> \o structFieldName(fs[ex[k]])
                                        \o <<"\"", " = ", "?", ", ">>]),
                         ", ")
                     setArgs == [k \in 1..Len(ex) |-> b.literalValue.v[ex[k]]]
                     where == buildQuery(b.fieldOperationTree, h)
                 IN Built(<<"UPDATE ">> \o name.query \o where.query \o setStmt \o <<";">>,
                          where.args \o setArgs)

UpdateBuildQuery(b, h) ==
    IF b.err # NoErr THEN Failed(b.err)
    ELSE LET name == tableNameString(b.from)
         IN IF name.panic THEN Panicked
            ELSE IF ~b.literalValue.set THEN Failed(ErrNoSetStatement)
            ELSE LET fs == TypeFields(b.T)
                     ex == ExportedIndexes(fs, 1)
                     setStmt == TrimSuffix(
                         <<" SET ">> \o
                         Flatten([k \in 1..Len(ex) |->
                                    <<"\"">> \o structFieldName(fs[ex[k]])
                                        \o <<"\"", " = ", "?", ", ">>]),
                         ", ")
                     setArgs == [k \in 1..Len(ex) |-> b.literalValue.v[ex[k]]]
                     where == buildQuery(b.fieldOperationTree, h)
                 IN Built(<<"UPDATE ">> \o name.query \o setStmt \o where.query \o <<";">>,
                          setArgs \o where.args)

InsertBuildQuery(b, h) ==
    IF b.err # NoErr THEN Failed(b.err)
    ELSE LET name == tableNameString(b.from)
         IN IF name.panic THEN Panicked
            ELSE IF Len(b.literalValues) = 0 THEN Failed(ErrNoInsertValues)
            ELSE LET fs == TypeFields(b.T)
                     numExported == Len(ExportedIndexes(fs, 1))
                     n == Len(b.literalValues)
                     group == <<"(">> \o TrimSuffix(RepeatPoints(numExported), ", ") \o <<")">>
                     values == <<" VALUES ">> \o
                               Flatten([i \in 1..n |->
                                          group \o (IF i < n THEN <<", ">> ELSE <<>>)])
                     \* insertValue.Field(i).Interface() panics on a field that
                     \* is not exported.
                     panics == \E i \in 1..numExported : ~fs[i].Exported
                     args == Flatten([i \in 1..n |->
                                        [k \in 1..numExported |-> b.literalValues[i][k]]])
                 IN IF panics THEN Panicked
                    ELSE Built(<<"INSERT INTO ">> \o name.query \o values \o <<";">>, args)

\* QueryBuilder.BuildQuery
BuildQuery(b, h) ==
    CASE b.kind = "select" -> SelectBuildQuery(b, h)
      [] b.kind = "delete" -> DeleteBuildQuery(b, h)
      [] b.kind = "update" -> UpdateBuildQuery(b, h)
      [] b.kind = "insert" -> InsertBuildQuery(b, h)

---------------------------------------------------------------------------
(* The terminal operations.  The database handle is the caller's; what it  *)
(* answers to the one call it may receive is its reply: the error of       *)
(* db.ExecContext / db.QueryContext, the sql.Result, and for a query the   *)
(* rows of the cursor, the row whose Scan fails (0 = none) and whether the *)
(* iteration ends by an error instead of the end of the rows.              *)

DbErr == Err("driver error")
ScanErr == Err("scan error")

Reply(err, res, rows, scanFails, iterErr) ==
    [err |-> err, res |-> res, rows |-> rows, scanFails |-> scanFails, iterErr |-> iterErr]

\* What a terminal operation returned (or that it panicked), and whether it
\* left the cursor open.
Outcome(fn, err, res, mapped, one, panic, open) ==
    [fn |-> fn, err |-> err, res |-> res, mapped |-> mapped, one |-> one,
     panic |-> panic, open |-> open]

\* The handle after a terminal operation that sent it the calls.
Handle(calls, reply, out) == [calls |-> calls, reply |-> reply, out |-> <<out>>]

\* The zero value of a field of new(T).
ZeroField == AnyInt(0)

\* QueryContext[T]: the loop over the cursor from row i on, mapped being the
\* records appended so far.  rows.Next() returning false closes the cursor;
\* a return or a panic from inside the loop leaves it open.
RECURSIVE mapRows(_, _, _, _)
mapRows(T, reply, i, mapped) ==
    IF i > Len(reply.rows)
    THEN [mapped |-> mapped, err |-> NoErr, panic |-> FALSE, open |-> FALSE]
    ELSE LET fs == TypeFields(T)
             numExported == Len(ExportedIndexes(fs, 1))
         IN IF reply.scanFails = i
            THEN [mapped |-> <<>>, err |-> ScanErr, panic |-> FALSE, open |-> TRUE]
            \* mappedValue.Field(i).Set panics on a field that is not exported.
            ELSE IF \E k \in 1..numExported : ~fs[k].Exported
            THEN [mapped |-> <<>>, err |-> NoErr, panic |-> TRUE, open |-> TRUE]
            ELSE mapRows(T, reply, i + 1,
                         Append(mapped,
                                [k \in 1..Len(fs) |->
                                    IF k <= numExported THEN reply.rows[i][k] ELSE ZeroField]))

\* QueryContext[T](ctx, db, query, args...)
QueryContext(T, reply) ==
    IF reply.err # NoErr
    THEN [mapped |-> <<>>, err |-> reply.err, panic |-> FALSE, open |-> FALSE]
    ELSE mapRows(T, reply, 1, <<>>)

\* An ExecContext that hands the text to the handle before it looks at the
\* error of BuildQuery.
ExecContext_Unchecked(b, h, reply) ==
    LET r == BuildQuery(b, h)
    IN Handle(<<[fn |-> "ExecContext", query |-> r.query, args |-> r.args]>>, <<reply>>,
              Outcome("ExecContext", IF r.err # NoErr THEN r.err ELSE reply.err,
                      reply.res, <<>>, <<>>, r.panic, FALSE))

\* ExecContext and Exec of DeleteBuilder, UpdateBuilder and InsertBuilder.
ExecContext(b, h, reply) ==
    LET r == BuildQuery(b, h)
    IN IF r.panic
       THEN Handle(<<>>, <<>>, Outcome("ExecContext", NoErr, "nil", <<>>, <<>>, TRUE, FALSE))
       ELSE IF r.err # NoErr
       THEN Handle(<<>>, <<>>, Outcome("ExecContext", r.err, "nil", <<>>, <<>>, FALSE, FALSE))
       ELSE Handle(<<[fn |-> "ExecContext", query |-> r.query, args |-> r.args]>>, <<reply>>,
                   Outcome("ExecContext", reply.err, reply.res, <<>>, <<>>, FALSE, FALSE))

\* QueryContext and Query of SelectBuilder.
SelectQueryContext(b, h, reply) ==
    LET r == BuildQuery(b, h)
    IN IF r.panic
       THEN Handle(<<>>, <<>>, Outcome("QueryContext", NoErr, "nil", <<>>, <<>>, TRUE, FALSE))
       ELSE IF r.err # NoErr
       THEN Handle(<<>>, <<>>, Outcome("QueryContext", r.err, "nil", <<>>, <<>>, FALSE, FALSE))
       ELSE LET q == QueryContext(b.T, reply)
            IN Handle(<<[fn |-> "QueryContext", query |-> r.query, args |-> r.args]>>, <<reply>>,
                      Outcome("QueryContext", q.err, "nil", q.mapped, <<>>, q.panic, q.open))

\* A GetOneContext that returns the last mapped element.
GetOneContext_Last(b, h, reply) ==
    LET d == SelectQueryContext(b, h, reply)
        ts == d.out[1]
    IN IF ts.panic \/ ts.err # NoErr
       THEN [d EXCEPT !.out[1].fn = "GetOneContext", !.out[1].mapped = <<>>]
       ELSE IF Len(ts.mapped) = 0
       THEN [d EXCEPT !.out[1].fn = "GetOneContext", !.out[1].err = ErrNoRows]
       ELSE [d EXCEPT !.out[1].fn = "GetOneContext", !.out[1].mapped = <<>>,
                      !.out[1].one = <<ts.mapped[Len(ts.mapped)]>>]

\* GetOneContext and GetOne of SelectBuilder.
GetOneContext(b, h, reply) ==
    LET d == SelectQueryContext(b, h, reply)
        ts == d.out[1]
    IN IF ts.panic \/ ts.err # NoErr
       THEN [d EXCEPT !.out[1].fn = "GetOneContext", !.out[1].mapped = <<>>]
       ELSE IF Len(ts.mapped) = 0
       THEN [d EXCEPT !.out[1].fn = "GetOneContext", !.out[1].err = ErrNoRows]
       ELSE [d EXCEPT !.out[1].fn = "GetOneContext", !.out[1].mapped = <<>>,
                      !.out[1].one = <<ts.mapped[1]>>]

---------------------------------------------------------------------------
(* The inputs the caller draws from.                                       *)

TableNames == { <<>>, <<"t">>, <<"s", ".", "t">> }

\* Equal("", nil) is the predicate whose FieldOperation is the zero value.
WhereOps == { Equal(<<>>, AnyNil),
              Equal(<<"a">>, AnyInt(1)),
              In(<<"b">>, <<AnyInt(1), AnyInt(2)>>) }

ChainOps == { GreaterThan(<<"c">>, AnyInt(3)),
              NotIn(<<"d">>, <<AnyInt(4)>>) }

Limits == {0, 1}

\* Instances of T: one value per declared field.
Records == { <<AnyInt(1), AnyInt(2)>>, <<AnyInt(3), AnyInt(4)>> }

Payloads == { <<>>,
              << <<AnyInt(1), AnyInt(2)>> >>,
              << <<AnyInt(1), AnyInt(2)>>, <<AnyInt(3), AnyInt(4)>> >> }

\* The predicate passed by the call that makes builder number n: one that
\* no other call passes.
FreshOp(n) == Equal(<<"f">>, AnyInt(n))

\* Every string of at most n characters over a schema letter, a table
\* letter and the separator.
RECURSIVE StringsUpTo(_)
StringsUpTo(n) ==
    IF n = 0 THEN {<<>>}
    ELSE LET shorter == StringsUpTo(n - 1)
         IN shorter \cup {Append(s, c) : s \in shorter, c \in {"s", "t", "."}}

NameStrings == StringsUpTo(MaxNameLen)

\* Every sequence of at most n values.
RECURSIVE ValueSeqs(_)
ValueSeqs(n) ==
    IF n = 0 THEN {<<>>}
    ELSE LET shorter == ValueSeqs(n - 1)
         IN shorter \cup {Append(vs, v) : vs \in shorter, v \in {AnyInt(1), AnyInt(2)}}

\* The values passed to the constructors that take one value: nil, a
\* number, and collections.
Scalars == { AnyNil,
             AnyInt(1),
             AnySlice(<<>>),
             AnySlice(<<AnyInt(1), AnyInt(2)>>),
             AnyIntSlice(<<1, 2>>) }

\* The predicates the constructors make on the field "a".
Predicates ==
    {In(<<"a">>, vs) : vs \in ValueSeqs(MaxValues)}
        \cup {NotIn(<<"a">>, vs) : vs \in ValueSeqs(MaxValues)}
        \cup {Equal(<<"a">>, v) : v \in Scalars}
        \cup {NotEqual(<<"a">>, v) : v \in Scalars}
        \cup {GreaterThan(<<"a">>, v) : v \in Scalars}
        \cup {LessThan(<<"a">>, v) : v \in Scalars}
        \cup {GreaterThanOrEqual(<<"a">>, v) : v \in Scalars}
        \cup {LessThanOrEqual(<<"a">>, v) : v \in Scalars}

\* What the handle answers to ExecContext: a result, or an error.
ExecReplies == { Reply(NoErr, "result", <<>>, 0, FALSE),
                 Reply(DbErr, "nil", <<>>, 0, FALSE) }

\* The n rows of a cursor over T: one column per projected field.
RowsOf(T, n) ==
    [i \in 1..n |-> [k \in 1..Len(ExportedIndexes(TypeFields(T), 1)) |-> AnyInt(10 * i + k)]]

\* What the handle answers to QueryContext: an error, or a cursor of at
\* most MaxRows rows that ends, or whose Scan fails at some row, or whose
\* iteration stops by an error after the rows.
Cursors(T) ==
    { Reply(DbErr, "nil", <<>>, 0, FALSE) }
        \cup UNION { { Reply(NoErr, "rows", RowsOf(T, n), k, FALSE) : k \in 0..n } :
                        n \in 0..MaxRows }
        \cup { Reply(NoErr, "rows", RowsOf(T, n), 0, TRUE) : n \in 0..MaxRows }

---------------------------------------------------------------------------
(* The state: bs are the builder values the caller holds, in the order     *)
(* they were made; hist[j] records the call that made bs[j] (its receiver  *)
(* bs[parent], the method, the predicate, the table name or the records   *)
(* passed, and what the new builder's predicate chain rendered as when it  *)
(* was returned).  db is the database handle the caller passes to Exec and    *)
(* Query: the calls it received and what the terminal operation returned.  *)

\* The arguments of a fluent call: a predicate (Where, And, Or), a table
\* name (From, Into) or the records passed (Values, SetStruct).
NoArg == [op |-> emptyFieldOperationTree.op, name |-> <<>>, payload |-> <<>>]
OpArg(op) == [NoArg EXCEPT !.op = op]
NameArg(s) == [NoArg EXCEPT !.name = s]
PayloadArg(ts) == [NoArg EXCEPT !.payload = ts]

HistEntry(parent, m, arg, b, h) ==
    [parent |-> parent, m |-> m, op |-> arg.op, name |-> arg.name,
     payload |-> arg.payload,
     made |-> buildQuery(b.fieldOperationTree, h)]

\* A database handle that has received no call.
NoDb == [calls |-> <<>>, reply |-> <<>>, out |-> <<>>]

\* The call  bs[i].m(...)  returned r and left the heap as h.
Returned(i, m, arg, r, h) ==
    /\ bs' = Append(bs, r)
    /\ heap' = h
    /\ hist' = Append(hist, HistEntry(i, m, arg, r, h))
    /\ UNCHANGED <<th, db>>

\* The receiver of the call that made builder j (0 for a constructor).
Receiver(j) == hist[j].parent

\* How many calls of method m are in j's chain.
RECURSIVE Count(_, _)
Count(j, m) ==
    IF Receiver(j) = 0 THEN 0
    ELSE Count(Receiver(j), m) + (IF hist[j].m = m THEN 1 ELSE 0)

HasWhere(b) == b.kind \in {"select", "delete", "update"}
HasLimit(b) == b.kind \in {"select", "delete"}

FromCall(R, names) ==
    \E i \in R, s \in names :
        Returned(i, "From", NameArg(s), From(bs[i], s), heap)

WhereCall(R, ops) ==
    \E i \in R, op \in ops :
        /\ HasWhere(bs[i])
        /\ Returned(i, "Where", OpArg(op), Where(bs[i], op), heap)

AndCall(R, ops) ==
    \E i \in R, op \in ops :
        /\ HasWhere(bs[i])
        /\ LET r == And(bs[i], heap, op) IN Returned(i, "And", OpArg(op), r.b, r.heap)

OrCall(R, ops) ==
    \E i \in R, op \in ops :
        /\ HasWhere(bs[i])
        /\ LET r == Or(bs[i], heap, op) IN Returned(i, "Or", OpArg(op), r.b, r.heap)

LimitCall(R, limits) ==
    \E i \in R, n \in limits :
        /\ HasLimit(bs[i])
        /\ Returned(i, "Limit", NoArg, Limit(bs[i], n), heap)

ValuesCall(R) ==
    \E i \in R, ts \in Payloads :
        /\ bs[i].kind = "insert"
        /\ Returned(i, "Values", PayloadArg(ts), Values(bs[i], ts), heap)

SetStructCall(R) ==
    \E i \in R, t \in Records :
        /\ bs[i].kind = "update"
        /\ Returned(i, "SetStruct", PayloadArg(<<t>>), SetStruct(bs[i], t), heap)

---------------------------------------------------------------------------
(* Spec: one chain of fluent calls on a builder of any kind; each call's   *)
(* receiver is the builder the previous call returned.                     *)

Last == {Len(bs)}

Init ==
    /\ heap = <<>>
    /\ \E kind \in Kinds, T \in TypeNames :
           /\ bs = <<NewBuilder(kind, T)>>
           /\ hist = <<HistEntry(0, "New", NoArg,
                                 NewBuilder(kind, T), <<>>)>>
    /\ th = <<>>
    /\ db = NoDb

CanCall == Len(bs) <= MaxCalls

FromStep == CanCall /\ FromCall(Last, TableNames)
WhereStep == CanCall /\ WhereCall(Last, WhereOps)
AndStep == CanCall /\ AndCall(Last, ChainOps)
OrStep == CanCall /\ OrCall(Last, ChainOps)
LimitStep == CanCall /\ LimitCall(Last, Limits)
ValuesStep == CanCall /\ ValuesCall(Last)
SetStructStep == CanCall /\ SetStructCall(Last)

Next ==
    \/ FromStep
    \/ WhereStep
    \/ AndStep
    \/ OrStep
    \/ LimitStep
    \/ ValuesStep
    \/ SetStructStep

Spec == Init /\ [][Next]_vars

---------------------------------------------------------------------------
(* SpecTable: a builder of any kind on which From/Into is called at most   *)
(* twice, with any string as the name, and the payload is set at most once. *)

InitTable == Init

TableFrom == Count(Len(bs), "From") < 2 /\ FromCall(Last, NameStrings)
TableValues == Count(Len(bs), "Values") = 0 /\ ValuesCall(Last)
TableSetStruct == Count(Len(bs), "SetStruct") = 0 /\ SetStructCall(Last)

NextTable ==
    \/ TableFrom
    \/ TableValues
    \/ TableSetStruct

SpecTable == InitTable /\ [][NextTable]_vars

---------------------------------------------------------------------------
(* SpecExec: one chain of fluent calls, then one terminal operation on the *)
(* builder the chain returned, with a handle whose reply is any of the     *)
(* above.                                                                  *)

InitExec == Init

CanChain == db.out = <<>> /\ Len(bs) <= MaxExecCalls

ExecFrom == CanChain /\ FromCall(Last, TableNames)
ExecWhere == CanChain /\ WhereCall(Last, WhereOps)
ExecAnd == CanChain /\ AndCall(Last, ChainOps)
ExecOr == CanChain /\ OrCall(Last, ChainOps)
ExecLimit == CanChain /\ LimitCall(Last, Limits)
ExecValues == CanChain /\ ValuesCall(Last)
ExecSetStruct == CanChain /\ SetStructCall(Last)

\* b.Exec(db) / b.ExecContext(ctx, db)
RunExec ==
    /\ db.out = <<>>
    /\ bs[Len(bs)].kind \in {"delete", "update", "insert"}
    /\ \E reply \in ExecReplies : db' = ExecContext(bs[Len(bs)], heap, reply)
    /\ UNCHANGED <<heap, bs, hist, th>>

\* b.Query(db) / b.QueryContext(ctx, db)
RunQuery ==
    /\ db.out = <<>>
    /\ bs[Len(bs)].kind = "select"
    /\ \E reply \in Cursors(bs[Len(bs)].T) : db' = SelectQueryContext(bs[Len(bs)], heap, reply)
    /\ UNCHANGED <<heap, bs, hist, th>>

\* b.GetOne(db) / b.GetOneContext(ctx, db)
RunGetOne ==
    /\ db.out = <<>>
    /\ bs[Len(bs)].kind = "select"
    /\ \E reply \in Cursors(bs[Len(bs)].T) : db' = GetOneContext(bs[Len(bs)], heap, reply)
    /\ UNCHANGED <<heap, bs, hist, th>>

NextExec ==
    \/ ExecFrom
    \/ ExecWhere
    \/ ExecAnd
    \/ ExecOr
    \/ ExecLimit
    \/ ExecValues
    \/ ExecSetStruct
    \/ RunExec
    \/ RunQuery
    \/ RunGetOne

SpecExec == InitExec /\ [][NextExec]_vars

---------------------------------------------------------------------------
(* SpecPred: a builder on which Where is called with any predicate the     *)
(* constructors make, and then And or Or with any such predicate.          *)

InitPred ==
    /\ heap = <<>>
    /\ \E kind \in {"select", "delete", "update"} :
           /\ bs = <<NewBuilder(kind, "bunny")>>
           /\ hist = <<HistEntry(0, "New", NoArg, NewBuilder(kind, "bunny"), <<>>)>>
    /\ th = <<>>
    /\ db = NoDb

PredWhere == Len(bs) = 1 /\ WhereCall(Last, Predicates)
PredAnd == Len(bs) = 2 /\ AndCall(Last, Predicates)
PredOr == Len(bs) = 2 /\ OrCall(Last, Predicates)

NextPred ==
    \/ PredWhere
    \/ PredAnd
    \/ PredOr

SpecPred == InitPred /\ [][NextPred]_vars

---------------------------------------------------------------------------
(* SpecTree: And/Or calls on a builder whose predicate chain is any tree   *)
(* of at most MaxNodes heap nodes below the root, a node with both links   *)
(* set included (two goroutines appending to one base leave such nodes,    *)
(* see SpecConc).  Every link points to a node of higher address and no    *)
(* node has two parents.                                                   *)

\* The links a node at address a (0 = the root) of a heap of n nodes may
\* hold: (and, or), each nil or a higher address, not the same node twice.
LinksFrom(a, n) ==
    {l \in ((a + 1)..n \cup {0}) \X ((a + 1)..n \cup {0}) : l[1] = 0 \/ l[1] # l[2]}

\* The heaps whose nodes a..n are set, node k holding the predicate
\* FreshOp(k); Heaps(1, n) are the heaps of n nodes.
RECURSIVE Heaps(_, _)
Heaps(a, n) ==
    IF a > n THEN {<<>>}
    ELSE {<<Node(FreshOp(a), l[2], l[1])>> \o rest :
              l \in LinksFrom(a, n), rest \in Heaps(a + 1, n)}

\* How many links of the root t and of the nodes of h point to node a.
References(t, h, a) ==
    Cardinality({p \in DOMAIN h : h[p].and = a})
        + Cardinality({p \in DOMAIN h : h[p].or = a})
        + (IF t.and = a THEN 1 ELSE 0) + (IF t.or = a THEN 1 ELSE 0)

\* A builder whose chain is the root t.
WithTree(kind, t) == [NewBuilder(kind, "bunny") EXCEPT !.fieldOperationTree = t]

InitTree ==
    /\ \E kind \in {"select", "delete", "update"}, n \in 0..MaxNodes :
           \E h \in Heaps(1, n), l \in LinksFrom(0, n) :
               LET t == Node(FreshOp(0), l[2], l[1])
               IN /\ \A a \in 1..n : References(t, h, a) = 1
                  /\ heap = h
                  /\ bs = <<WithTree(kind, t)>>
                  /\ hist = <<HistEntry(0, "New", NoArg, WithTree(kind, t), h)>>
    /\ th = <<>>
    /\ db = NoDb

CanAppend == Len(bs) <= MaxTreeCalls

TreeAnd == CanAppend /\ AndCall(Last, {FreshOp(MaxNodes + Len(bs))})
TreeOr == CanAppend /\ OrCall(Last, {FreshOp(MaxNodes + Len(bs))})

NextTree ==
    \/ TreeAnd
    \/ TreeOr

SpecTree == InitTree /\ [][NextTree]_vars

---------------------------------------------------------------------------
(* SpecBranch: fluent calls on any builder made so far, so that one base   *)
(* builder is branched into several chains.  Every Where, And and Or       *)
(* passes a predicate no other call passes.                                *)

Held == DOMAIN bs

NextOp == {FreshOp(Len(bs))}

CanBranch == Len(bs) <= MaxBranchCalls

InitBranch ==
    /\ heap = <<>>
    /\ \E kind \in {"select", "delete", "update"} :
           /\ bs = <<NewBuilder(kind, "bunny")>>
           /\ hist = <<HistEntry(0, "New", NoArg,
                                 NewBuilder(kind, "bunny"), <<>>)>>
    /\ th = <<>>
    /\ db = NoDb

BranchFrom == CanBranch /\ FromCall(Held, {<<"t">>})
BranchWhere == CanBranch /\ WhereCall(Held, NextOp)
BranchAnd == CanBranch /\ AndCall(Held, NextOp)
BranchOr == CanBranch /\ OrCall(Held, NextOp)
BranchLimit == CanBranch /\ LimitCall(Held, {1})
BranchSetStruct == CanBranch /\ SetStructCall(Held)

NextBranch ==
    \/ BranchFrom
    \/ BranchWhere
    \/ BranchAnd
    \/ BranchOr
    \/ BranchLimit
    \/ BranchSetStruct

SpecBranch == InitBranch /\ [][NextBranch]_vars

---------------------------------------------------------------------------
(* SpecConc: the main goroutine builds a base builder by a chain of        *)
(* Where/And/Or calls, then two goroutines each call And or Or on that     *)
(* base.  A goroutine's call is taken apart into the reads and the write   *)
(* of appendToFieldOperationTree; next = 0 is the root of the goroutine's  *)
(* own copy of the receiver, any other value a heap address.               *)

Threads == {1, 2}

InitConc ==
    /\ heap = <<>>
    /\ \E kind \in {"select", "delete", "update"} :
           /\ bs = <<NewBuilder(kind, "bunny")>>
           /\ hist = <<HistEntry(0, "New", NoArg,
                                 NewBuilder(kind, "bunny"), <<>>)>>
    /\ th = <<>>
    /\ db = NoDb

CanBuildBase == th = <<>> /\ Len(bs) <= MaxBaseLinks + 1

BaseWhere == CanBuildBase /\ WhereCall(Last, NextOp)
BaseAnd == CanBuildBase /\ AndCall(Last, NextOp)
BaseOr == CanBuildBase /\ OrCall(Last, NextOp)

\* go base.And(p) / go base.Or(p), twice, on a base that holds a Where and
\* at least one And/Or.
Spawn ==
    /\ th = <<>>
    /\ LET base == bs[Len(bs)]
       IN /\ base.err = NoErr
          /\ base.fieldOperationTree # emptyFieldOperationTree
          /\ base.fieldOperationTree.and # 0 \/ base.fieldOperationTree.or # 0
          /\ \E l1, l2 \in {"and", "or"} :
                 th' = [t \in Threads |->
                          [pc |-> "call",
                           base |-> Len(bs),
                           b |-> base,
                           link |-> IF t = 1 THEN l1 ELSE l2,
                           op |-> FreshOp(Len(bs) + t),
                           next |-> 0,
                           res |-> 0]]
    /\ UNCHANGED <<heap, bs, hist, db>>

\* The node  *next  as goroutine t reads it.
NextNode(t) ==
    IF th[t].next = 0 THEN th[t].b.fieldOperationTree ELSE heap[th[t].next]

\* The goroutine's call returns its copy b of the builder.
ThreadReturns(t, b, h) ==
    /\ bs' = Append(bs, b)
    /\ heap' = h
    /\ hist' = Append(hist, HistEntry(th[t].base,
                                      IF th[t].link = "and" THEN "And" ELSE "Or",
                                      OpArg(th[t].op), b, h))
    /\ th' = [th EXCEPT ![t].pc = "done", ![t].b = b, ![t].res = Len(bs) + 1]
    /\ UNCHANGED db

\* if opTree == nil || *opTree == emptyFieldOperationTree
ThreadCall(t) ==
    /\ th # <<>>
    /\ th[t].pc = "call"
    /\ IF th[t].b.fieldOperationTree = emptyFieldOperationTree
       THEN ThreadReturns(t, [th[t].b EXCEPT !.err = ErrMissingWhereClause], heap)
       ELSE /\ th' = [th EXCEPT ![t].pc = "and", ![t].next = 0]
            /\ UNCHANGED <<heap, bs, hist, db>>

\* if next.and != nil { next = next.and; continue }
ThreadReadAnd(t) ==
    /\ th # <<>>
    /\ th[t].pc = "and"
    /\ th' = IF NextNode(t).and # 0
             THEN [th EXCEPT ![t].next = NextNode(t).and]
             ELSE [th EXCEPT ![t].pc = "or"]
    /\ UNCHANGED <<heap, bs, hist, db>>

\* if next.or != nil { next = next.or; continue }
ThreadReadOr(t) ==
    /\ th # <<>>
    /\ th[t].pc = "or"
    /\ th' = IF NextNode(t).or # 0
             THEN [th EXCEPT ![t].next = NextNode(t).or, ![t].pc = "and"]
             ELSE [th EXCEPT ![t].pc = "assign"]
    /\ UNCHANGED <<heap, bs, hist, db>>

\* assign(next): next.and = &fieldOperationTree{op: op}  (or next.or), and
\* the return of the builder.
ThreadAssign(t) ==
    /\ th # <<>>
    /\ th[t].pc = "assign"
    /\ LET new == Len(heap) + 1
           h1 == Append(heap, Node(th[t].op, 0, 0))
           b == th[t].b
           l == th[t].link
       IN IF th[t].next = 0
          THEN ThreadReturns(t,
                   IF l = "and" THEN [b EXCEPT !.fieldOperationTree.and = new]
                                ELSE [b EXCEPT !.fieldOperationTree.or = new],
                   h1)
          ELSE ThreadReturns(t, b,
                   IF l = "and" THEN [h1 EXCEPT ![th[t].next].and = new]
                                ELSE [h1 EXCEPT ![th[t].next].or = new])

NextConc ==
    \/ BaseWhere
    \/ BaseAnd
    \/ BaseOr
    \/ Spawn
    \/ \E t \in Threads : ThreadCall(t)
    \/ \E t \in Threads : ThreadReadAnd(t)
    \/ \E t \in Threads : ThreadReadOr(t)
    \/ \E t \in Threads : ThreadAssign(t)

SpecConc == InitConc /\ [][NextConc]_vars

---------------------------------------------------------------------------
(* The chain of calls that made a builder, read off hist.                  *)

Builders == DOMAIN bs

\* What BuildQuery returns now for builder j.
Result(j) == BuildQuery(bs[j], heap)

\* The error recorded by the earliest call of j's chain that recorded one.
RECURSIVE FirstErr(_)
FirstErr(j) ==
    IF Receiver(j) = 0 THEN NoErr
    ELSE LET f == FirstErr(Receiver(j))
         IN IF f # NoErr THEN f ELSE bs[j].err

\* j's chain holds an And or Or made before any Where.
RECURSIVE AndOrBeforeWhere(_)
AndOrBeforeWhere(j) ==
    /\ Receiver(j) # 0
    /\ \/ AndOrBeforeWhere(Receiver(j))
       \/ hist[j].m \in {"And", "Or"} /\ Count(Receiver(j), "Where") = 0

EndsWith(s, suffix) ==
    /\ Len(s) >= Len(suffix)
    /\ SubSeq(s, Len(s) - Len(suffix) + 1, Len(s)) = suffix

---------------------------------------------------------------------------
(* C4: once a builder carries a deferred error, a fluent call on it        *)
(* returns a builder with the same table identifier, predicate chain,      *)
(* limit, payload and deferred error.                                      *)
C4_NoOpAfterError ==
    \A j \in Builders :
        (Receiver(j) # 0 /\ bs[Receiver(j)].err # NoErr)
            => /\ bs[j] = bs[Receiver(j)]
               /\ hist[j].made = hist[Receiver(j)].made

(* C5: BuildQuery returns the error recorded by the first offending call   *)
(* of the chain.                                                           *)
C5_FirstErrorWins ==
    \A j \in Builders :
        FirstErr(j) # NoErr => Result(j).err = FirstErr(j)

(* C6: whenever BuildQuery returns a non-nil error, the query text and     *)
(* the argument list it returns are empty.                                 *)
C6_ErrorMeansNoText ==
    \A j \in Builders :
        Result(j).err # NoErr => Result(j).query = <<>> /\ Result(j).args = <<>>

\* A builder with a table, a predicate and a payload or limit to render
\* whose BuildQuery returns an error.
C6_Witness ==
    \E j \in Builders :
        /\ Result(j).err # NoErr
        /\ bs[j].from.tableName # <<>>
        /\ buildQuery(bs[j].fieldOperationTree, heap).query # <<>>
        /\ bs[j].limit.set \/ bs[j].kind = "update"

(* C7: a chain in which Where is called twice makes BuildQuery return      *)
(* DoubleWhereClause.                                                      *)
C7_DoubleWhere ==
    \A j \in Builders :
        Count(j, "Where") >= 2 => Result(j).err = ErrDoubleWhereClause

(* C8: an And or Or called before any Where makes BuildQuery return        *)
(* MissingWhereClause, whatever calls follow.                              *)
C8_MissingWhere ==
    \A j \in Builders :
        AndOrBeforeWhere(j) => Result(j).err = ErrMissingWhereClause

(* C9: a chain in which Limit is called twice makes BuildQuery return      *)
(* LimitAlreadySet, whatever calls precede, separate or follow them.       *)
C9_DoubleLimit ==
    \A j \in Builders :
        Count(j, "Limit") >= 2 => Result(j).err = ErrLimitAlreadySet

---------------------------------------------------------------------------
(* Claims about branching (SpecBranch) and concurrent branching           *)
(* (SpecConc).                                                             *)

\* What the predicate chain of builder j renders as now.
Rendered(j) == buildQuery(bs[j].fieldOperationTree, heap)

\* The rendering w followed by one more predicate joined by And or Or.
Appended(w, m, op) ==
    [query |-> w.query \o <<IF m = "And" THEN " AND " ELSE " OR ">> \o queryData(op).query,
     args |-> w.args \o queryData(op).args]

(* C1: no fluent call mutates its receiver: what BuildQuery returns for a  *)
(* builder is the same after a fluent call on it (or on any other builder) *)
(* as before.                                                              *)
C1_ReceiverUnchanged ==
    [][\A i \in DOMAIN bs : BuildQuery(bs[i], heap') = BuildQuery(bs[i], heap)]_vars

(* C2: two chains branched from one base by And/Or each render the base's  *)
(* predicates followed by their own predicate only.                        *)
C2_BranchesIndependent ==
    \A x, y \in Builders :
        LET base == Receiver(x)
        IN (/\ x < y
            /\ base # 0
            /\ Receiver(y) = base
            /\ hist[x].m \in {"And", "Or"}
            /\ hist[y].m \in {"And", "Or"}
            /\ bs[base].err = NoErr
            /\ hist[base].made.query # <<>>)
               => /\ Rendered(y) = Appended(hist[base].made, hist[y].m, hist[y].op)
                  /\ Rendered(x) = Appended(hist[base].made, hist[x].m, hist[x].op)

\* Some node, a builder's root or a heap node, has both links set.
BothLinks ==
    \/ \E j \in Builders : bs[j].fieldOperationTree.and # 0 /\ bs[j].fieldOperationTree.or # 0
    \/ \E a \in DOMAIN heap : heap[a].and # 0 /\ heap[a].or # 0

(* C3: when two goroutines call And/Or on the same base, under every       *)
(* interleaving each result renders the base's predicates followed by its  *)
(* own predicate only, and no node ends with both links set.               *)
C3_ConcurrentBranches ==
    (th # <<>> /\ \A t \in Threads : th[t].pc = "done")
        => /\ \A t \in Threads :
                  LET j == th[t].res
                  IN Rendered(j) = Appended(hist[th[t].base].made, hist[j].m, hist[j].op)
           /\ ~BothLinks


---------------------------------------------------------------------------
(* Claims about what BuildQuery renders (Spec).                            *)

\* The builders made by the calls of j's chain, oldest first.
RECURSIVE Chain(_)
Chain(j) == IF Receiver(j) = 0 THEN <<>> ELSE Append(Chain(Receiver(j)), j)

IsPredicateCall(k) == hist[k].m \in {"Where", "And", "Or"}

\* The WHERE fragment that lists the predicates passed by the calls ks in
\* order, the first after " WHERE " and each later one joined by its call's
\* connective.
RECURSIVE InCallOrder(_)
InCallOrder(ks) ==
    IF Len(ks) = 1
    THEN [query |-> <<" WHERE ">> \o queryData(hist[ks[1]].op).query,
          args |-> queryData(hist[ks[1]].op).args]
    ELSE Appended(InCallOrder(SubSeq(ks, 1, Len(ks) - 1)),
                  hist[ks[Len(ks)]].m, hist[ks[Len(ks)]].op)

(* C11: a chain with exactly one Where followed by n >= 0 And/Or calls     *)
(* renders, when its last call returns, a WHERE fragment of exactly n+1    *)
(* predicates in call order, each later one joined by " AND " or " OR " as *)
(* its call was, and the arguments are the predicates' arguments           *)
(* concatenated in that order.                                             *)
C11_ChainInCallOrder ==
    \A j \in Builders :
        (Count(j, "Where") = 1 /\ ~AndOrBeforeWhere(j))
            => hist[j].made = InCallOrder(SelectSeq(Chain(j), IsPredicateCall))

---------------------------------------------------------------------------
(* Claims about the table identifier (SpecTable).                          *)

\* How many separators the name s holds.
Dots(s) == Cardinality({i \in 1..Len(s) : s[i] = "."})

\* A name that parses: not empty, at most one separator.
ValidName(s) == s # <<>> /\ Dots(s) <= 1

\* The part of a name of one separator before it and the part after it;
\* without a separator, nothing and the name itself.
DotAt(s) == CHOOSE i \in 1..Len(s) : s[i] = "."
Before(s) == IF Dots(s) = 0 THEN <<>> ELSE SubSeq(s, 1, DotAt(s) - 1)
After(s) == IF Dots(s) = 0 THEN s ELSE SubSeq(s, DotAt(s) + 1, Len(s))

\* The calls of j's chain that passed a table name.
FromCalls(j) == SelectSeq(Chain(j), LAMBDA k : hist[k].m = "From")

(* C12: a chain that sets an explicit table name twice (From / Into        *)
(* called twice, each with a name that parses) makes BuildQuery return     *)
(* TableNameAlreadySet, whatever the two names are.                        *)
C12_TableNameSetTwice ==
    \A j \in Builders :
        (/\ Len(FromCalls(j)) >= 2
         /\ \A i \in DOMAIN FromCalls(j) : ValidName(hist[FromCalls(j)[i]].name))
            => Result(j).err = ErrTableNameAlreadySet

(* C13: From/Into on a builder whose table is not set yet parses the name  *)
(* s: it records InvalidTableName(s) exactly when s is empty or holds more *)
(* than one ".", and leaves the table as it was; otherwise it records      *)
(* no error, the schema is the part before the separator (nothing when     *)
(* there is none) and the table is the part after it (s itself when there  *)
(* is none).                                                               *)
C13_ParseTableName ==
    \A j \in Builders :
        LET s == hist[j].name
            before == bs[Receiver(j)]
        IN (/\ hist[j].m = "From"
            /\ ~(before.from.schema # <<>> /\ before.from.tableName # <<>>))
               => IF s = <<>> \/ Dots(s) > 1
                  THEN /\ bs[j].err = ErrInvalidTableName(s)
                       /\ bs[j].from = before.from
                  ELSE /\ bs[j].err = before.err
                       /\ bs[j].err # ErrInvalidTableName(s)
                       /\ bs[j].from.schema = Before(s)
                       /\ bs[j].from.tableName = After(s)

\* One chain in which a name of two separators was rejected and the name
\* "s.t" was then taken apart into schema and table.
C13_Witness ==
    \E j \in Builders :
        /\ hist[j].m = "From"
        /\ hist[j].name = <<"s", ".", "t">>
        /\ bs[j].from.schema = <<"s">>
        /\ bs[j].from.tableName = <<"t">>
        /\ Receiver(j) # 0
        /\ hist[Receiver(j)].m = "From"
        /\ Dots(hist[Receiver(j)].name) = 2
        /\ bs[Receiver(j)].err = ErrInvalidTableName(hist[Receiver(j)].name)

\* A name within double quotes.
Quoted(s) == <<"\"">> \o s \o <<"\"">>

\* The pieces of the text q that stand between the keyword that precedes
\* the table reference and the clause (or the closing ";") that follows it.
TableReference(kind, q) ==
    LET keyword == CASE kind = "select" -> " FROM "
                     [] kind = "delete" -> "DELETE FROM "
                     [] kind = "update" -> "UPDATE "
                     [] kind = "insert" -> "INSERT INTO "
        k == CHOOSE i \in 1..Len(q) : q[i] = keyword
        ends == {i \in (k + 1)..Len(q) : q[i] \in {" WHERE ", " LIMIT ", " SET ", " VALUES ", ";"}}
        e == CHOOSE i \in ends : \A m \in ends : i <= m
    IN SubSeq(q, k + 1, e - 1)

\* The name passed by the last From/Into of j's chain.
LastName(j) == hist[FromCalls(j)[Len(FromCalls(j))]].name

(* C14: in the text BuildQuery returns, the table reference of a builder   *)
(* on which no name was set is the quoted name of its record type; once a  *)
(* name was set it is "table" for a name without schema and                *)
(* "schema"."table" for a name with one, and the type name is not          *)
(* rendered.                                                               *)
C14_TableReference ==
    \A j \in Builders :
        LET r == Result(j)
        IN (r.err = NoErr /\ ~r.panic)
               => TableReference(bs[j].kind, r.query) =
                      IF FromCalls(j) = <<>>
                      THEN Quoted(TypeName(bs[j].T))
                      ELSE IF Before(LastName(j)) = <<>>
                      THEN Quoted(After(LastName(j)))
                      ELSE Quoted(Before(LastName(j))) \o <<".">> \o Quoted(After(LastName(j)))

\* A builder that renders its type name, and the same builder after
\* From("s.t") rendering schema and table.
C14_Witness ==
    \E j \in Builders :
        /\ Receiver(j) # 0
        /\ hist[j].m = "From"
        /\ hist[j].name = <<"s", ".", "t">>
        /\ FromCalls(Receiver(j)) = <<>>
        /\ Result(Receiver(j)).err = NoErr
        /\ TableReference(bs[j].kind, Result(Receiver(j)).query) = Quoted(TypeName(bs[j].T))
        /\ Result(j).err = NoErr
        /\ TableReference(bs[j].kind, Result(j).query)
               = <<"\"", "s", "\"", ".", "\"", "t", "\"">>

---------------------------------------------------------------------------
(* Claims about the payload and the columns (Spec, SpecTable).             *)

\* BuildQuery returned text for builder j.
Succeeds(j) == Result(j).err = NoErr /\ ~Result(j).panic

\* The positions of the exported fields of T, in declaration order.
Mappable(T) ==
    SelectSeq([i \in 1..Len(TypeFields(T)) |-> i], LAMBDA i : TypeFields(T)[i].Exported)

\* The column names of T: per exported field its db annotation when it has
\* one, else the field's name.
Columns(T) ==
    [k \in 1..Len(Mappable(T)) |->
        LET f == TypeFields(T)[Mappable(T)[k]]
        IN IF f.HasTag THEN f.Tag ELSE f.Name]

\* The values of the exported fields of the record t of type T.
MappableValues(T, t) == [k \in 1..Len(Mappable(T)) |-> t[Mappable(T)[k]]]

\* The items, each a sequence of pieces, joined by ", ".
RECURSIVE CommaJoined(_)
CommaJoined(items) ==
    IF items = <<>> THEN <<>>
    ELSE IF Len(items) = 1 THEN items[1]
    ELSE items[1] \o <<", ">> \o CommaJoined(Tail(items))

\* The pieces of q after the piece open up to the first piece of close that
\* follows.
Between(q, open, close) ==
    LET k == CHOOSE i \in 1..Len(q) : q[i] = open
        ends == {i \in (k + 1)..Len(q) : q[i] \in close}
        e == CHOOSE i \in ends : \A m \in ends : i <= m
    IN SubSeq(q, k + 1, e - 1)

(* C15: an Insert builder whose payload is empty (Values never called, or  *)
(* called with no record) and whose chain recorded no error makes          *)
(* BuildQuery return NoInsertValues and no text.                           *)
C15_NoInsertValues ==
    \A j \in Builders :
        (bs[j].kind = "insert" /\ bs[j].literalValues = <<>> /\ FirstErr(j) = NoErr)
            => Result(j) = Failed(ErrNoInsertValues)

(* C16: an Insert builder with N >= 1 records of a type with M exported    *)
(* fields, wherever its other fields are declared, and no recorded error   *)
(* makes BuildQuery return N groups of M placeholders and N*M arguments,   *)
(* row by row, each row the values of the record's exported fields in      *)
(* declaration order.                                                      *)
C16_InsertRows ==
    \A j \in Builders :
        LET r == Result(j)
            T == bs[j].T
            rows == bs[j].literalValues
            group == <<"(">> \o CommaJoined([k \in 1..Len(Mappable(T)) |-> <<"?">>]) \o <<")">>
        IN (bs[j].kind = "insert" /\ rows # <<>> /\ FirstErr(j) = NoErr)
               => /\ Succeeds(j)
                  /\ Between(r.query, " VALUES ", {";"})
                         = CommaJoined([i \in 1..Len(rows) |-> group])
                  /\ r.args = Flatten([i \in 1..Len(rows) |-> MappableValues(T, rows[i])])

(* C17: an Update builder on which no assignment record was set and whose  *)
(* chain recorded no error makes BuildQuery return NoSetStatement and no   *)
(* text, whatever Where/And/Or calls were made.                            *)
C17_NoSetStatement ==
    \A j \in Builders :
        (bs[j].kind = "update" /\ ~bs[j].literalValue.set /\ FirstErr(j) = NoErr)
            => Result(j) = Failed(ErrNoSetStatement)

(* C18: the SET clause of an Update lists exactly the exported fields of   *)
(* the record type in declaration order, each as "name" = ? with the db    *)
(* annotation as name when the field has one and the field name otherwise, *)
(* and the arguments start with the values of those fields in that order;  *)
(* fields that are not exported contribute nothing.                        *)
C18_SetClause ==
    \A j \in Builders :
        LET r == Result(j)
            T == bs[j].T
            M == Len(Mappable(T))
        IN (bs[j].kind = "update" /\ Succeeds(j))
               => /\ Between(r.query, " SET ", {" WHERE ", ";"})
                         = CommaJoined([k \in 1..M |-> Quoted(Columns(T)[k]) \o <<" = ", "?">>])
                  /\ Len(r.args) >= M
                  /\ SubSeq(r.args, 1, M) = MappableValues(T, bs[j].literalValue.v)

\* An Update of the type whose first field is not exported and whose
\* exported field has a db annotation, with a predicate, that builds.
C18_Witness ==
    \E j \in Builders :
        /\ bs[j].kind = "update"
        /\ bs[j].T = "pet"
        /\ Succeeds(j)
        /\ Rendered(j).query # <<>>
        /\ Between(Result(j).query, " SET ", {" WHERE ", ";"})
               = <<"\"", "p", "n", "\"", " = ", "?">>

(* C19: the projection of a Select lists the exported fields of the record *)
(* type in declaration order, each named by its db annotation when it has  *)
(* one and by its field name otherwise, as the SET clause of Update names  *)
(* them.                                                                   *)
C19_Projection ==
    \A j \in Builders :
        LET T == bs[j].T
        IN (bs[j].kind = "select" /\ Succeeds(j))
               => Between(Result(j).query, "SELECT ", {" FROM "})
                      = CommaJoined([k \in 1..Len(Mappable(T)) |-> Quoted(Columns(T)[k])])

---------------------------------------------------------------------------
(* Claims about the terminal operations (SpecExec).                        *)

\* The terminal operation has run; it ran on the last builder of the chain.
Ran == db.out # <<>>

(* C20: Exec, ExecContext, Query, QueryContext and GetOne send the handle  *)
(* nothing and return the error of BuildQuery when BuildQuery fails; when  *)
(* it succeeds they send the handle exactly one call, with exactly the     *)
(* text and the arguments BuildQuery returned.                             *)
C20_HandleCalledOnce ==
    Ran => LET r == Result(Len(bs))
           IN /\ r.err # NoErr => db.calls = <<>> /\ db.out[1].err = r.err
              /\ (r.err = NoErr /\ ~r.panic)
                     => /\ Len(db.calls) = 1
                        /\ db.calls[1].query = r.query
                        /\ db.calls[1].args = r.args
                        /\ db.calls[1].fn = IF bs[Len(bs)].kind = "select"
                                            THEN "QueryContext" ELSE "ExecContext"

\* An execution that sent the handle a text with a WHERE fragment and at
\* least two arguments.
C20_Witness ==
    /\ Ran
    /\ Len(db.calls) = 1
    /\ Len(db.calls[1].args) >= 2
    /\ Rendered(Len(bs)).query # <<>>
    /\ db.calls[1].fn = "ExecContext"

\* The terminal operation was a read that contacted the handle and
\* returned.
ReadReturned ==
    /\ Ran
    /\ db.out[1].fn \in {"QueryContext", "GetOneContext"}
    /\ db.reply # <<>>
    /\ ~db.out[1].panic

\* The error rows.Err() holds after an iteration that an error stopped.
RowsErr == Err("rows error")

(* C21: a Select read returns, unmodified, every error the handle reports: *)
(* when the query is started, while the cursor is advanced, or while a row *)
(* is scanned; a read that met such an error does not return a nil error.  *)
C21_ReadErrorsReturned ==
    ReadReturned
        => LET reply == db.reply[1]
               err == db.out[1].err
           IN /\ reply.err # NoErr => err = reply.err
              /\ reply.scanFails # 0 => err = ScanErr
              /\ reply.iterErr => err = RowsErr

(* C22: GetOne returns NoRows when the mapped sequence of its query is     *)
(* empty and otherwise the first mapped element, the first row the cursor  *)
(* yielded, however many rows follow; a build error or a query error is    *)
(* returned instead of NoRows.                                             *)
C22_GetOne ==
    (Ran /\ db.out[1].fn = "GetOneContext" /\ ~db.out[1].panic)
        => LET r == Result(Len(bs))
               out == db.out[1]
           IN IF r.err # NoErr
              THEN out.err = r.err /\ out.one = <<>>
              ELSE LET q == QueryContext(bs[Len(bs)].T, db.reply[1])
                   IN IF q.err # NoErr
                      THEN out.err = q.err /\ out.one = <<>>
                      ELSE IF q.mapped = <<>>
                      THEN out.err = ErrNoRows /\ out.one = <<>>
                      ELSE /\ out.err = NoErr
                           /\ out.one = <<q.mapped[1]>>
                           /\ MappableValues(bs[Len(bs)].T, out.one[1]) = db.reply[1].rows[1]

\* GetOne on a cursor of at least two rows returned the first.
C22_Witness ==
    /\ Ran
    /\ db.out[1].fn = "GetOneContext"
    /\ db.reply # <<>>
    /\ Len(db.reply[1].rows) >= 2
    /\ db.out[1].err = NoErr
    /\ db.out[1].one # <<>>

(* C23: row mapping gives every exported field of the record the value of  *)
(* its own column (the i-th row value goes to the i-th exported field) and *)
(* writes no field that is not exported, wherever such fields are          *)
(* declared.                                                               *)
C23_RowMapping ==
    (/\ Ran
     /\ db.out[1].fn = "QueryContext"
     /\ db.reply # <<>>
     /\ db.reply[1].err = NoErr
     /\ db.reply[1].scanFails = 0)
        => LET T == bs[Len(bs)].T
               rows == db.reply[1].rows
               mapped == db.out[1].mapped
           IN /\ ~db.out[1].panic
              /\ Len(mapped) = Len(rows)
              /\ \A i \in DOMAIN rows :
                     /\ MappableValues(T, mapped[i]) = rows[i]
                     /\ \A k \in DOMAIN mapped[i] :
                            ~TypeFields(T)[k].Exported => mapped[i][k] = ZeroField

---------------------------------------------------------------------------
(* The write path against the read path (Spec).                            *)

\* A cursor that delivers the one row and then ends.
OneRow(row) == Reply(NoErr, "rows", <<row>>, 0, FALSE)

(* C24: round trip.  For every record type and record r, the arguments     *)
(* Insert's BuildQuery returns for r, taken as one row and mapped back by  *)
(* QueryContext, give a record equal to r on every exported field.         *)
C24_RoundTrip ==
    \A j \in Builders :
        (bs[j].kind = "insert" /\ Len(bs[j].literalValues) = 1 /\ FirstErr(j) = NoErr)
            => LET T == bs[j].T
                   r == bs[j].literalValues[1]
                   written == Result(j)
                   read == QueryContext(T, OneRow(written.args))
               IN /\ Succeeds(j)
                  /\ ~read.panic
                  /\ read.err = NoErr
                  /\ Len(read.mapped) = 1
                  /\ MappableValues(T, read.mapped[1]) = MappableValues(T, r)

---------------------------------------------------------------------------
(* Claims about one predicate (SpecPred).                                  *)

\* What the accepted call that made builder j added to the rendering of
\* its receiver: the pieces after the connective, and the arguments.
Contributed(j) ==
    LET before == hist[Receiver(j)].made
        after == hist[j].made
    IN [query |-> SubSeq(after.query, Len(before.query) + 2, Len(after.query)),
        args |-> SubSeq(after.args, Len(before.args) + 1, Len(after.args))]

\* Builder j was made by a Where, And or Or that recorded no error.
Accepted(j) == IsPredicateCall(j) /\ bs[j].err = NoErr

(* C25: a predicate made by In or NotIn over k >= 0 values renders as      *)
(* "field" IN (?, ..., ?)  or  "field" NOT IN (?, ..., ?)  with exactly k  *)
(* placeholders and contributes exactly the k values, in order, as         *)
(* arguments.                                                              *)
C25_InList ==
    \A j \in Builders :
        LET p == hist[j].op
            values == p.ValueRaw.s
        IN (Accepted(j) /\ p.Operator \in {OperatorIn, OperatorNotIn})
               => /\ Contributed(j).query =
                         Quoted(p.FieldName)
                             \o <<" ", IF p.Operator = OperatorIn THEN "IN" ELSE "NOT IN", " ">>
                             \o <<"(">> \o CommaJoined([i \in 1..Len(values) |-> <<"?">>]) \o <<")">>
                  /\ Contributed(j).args = values

\* A chain of an In over no value followed by a NotIn over two values.
C25_Witness ==
    \E j \in Builders :
        /\ Accepted(j)
        /\ hist[j].m \in {"And", "Or"}
        /\ hist[j].op.Operator = OperatorNotIn
        /\ Len(Contributed(j).args) = 2
        /\ hist[Receiver(j)].op.Operator = OperatorIn
        /\ hist[Receiver(j)].made.query = <<" WHERE ", "\"", "a", "\"", " ", "IN", " ", "(", ")">>

(* C26: a predicate whose operator is none of IN and NOT IN renders        *)
(* exactly one placeholder and contributes exactly one argument, the value *)
(* itself, also when the value is a collection.                            *)
C26_OnePlaceholder ==
    \A j \in Builders :
        LET p == hist[j].op
        IN (Accepted(j) /\ p.Operator \notin {OperatorIn, OperatorNotIn})
               => /\ Contributed(j).query =
                         Quoted(p.FieldName) \o <<" ", OperatorString(p.Operator), " ", "?">>
                  /\ Contributed(j).args = <<p.ValueRaw>>

---------------------------------------------------------------------------
(* Claims about the shape of the predicate chain (Spec, SpecBranch,        *)
(* SpecTree).                                                              *)

(* C27: after a Where(p) that was accepted on a builder without error, for *)
(* every predicate p, the chain is not the empty sentinel: it renders a    *)
(* WHERE fragment with p, and an And/Or that follows is not rejected with  *)
(* MissingWhereClause.                                                     *)
C27_WhereNotEmpty ==
    \A j \in Builders :
        (hist[j].m = "Where" /\ bs[Receiver(j)].err = NoErr /\ bs[j].err = NoErr)
            => /\ bs[j].fieldOperationTree # emptyFieldOperationTree
               /\ hist[j].made = [query |-> <<" WHERE ">> \o queryData(hist[j].op).query,
                                  args |-> queryData(hist[j].op).args]
               /\ \A k \in Builders :
                      (Receiver(k) = j /\ hist[k].m \in {"And", "Or"})
                          => bs[k].err # ErrMissingWhereClause

(* C28: in every builder reached by fluent calls made from one thread, on  *)
(* one chain or on several builders branched from a common base, every     *)
(* node of the predicate chain has at most one of its and-link and or-link *)
(* set.                                                                    *)
C28_OneLinkPerNode == ~BothLinks

\* Two builders branched from one base whose chain has a node on the heap,
\* one by And and one by Or.
C28_Witness ==
    \E x, y \in Builders :
        /\ x # y
        /\ Receiver(x) # 0
        /\ Receiver(x) = Receiver(y)
        /\ hist[x].m = "And"
        /\ hist[y].m = "Or"
        /\ bs[x].err = NoErr
        /\ bs[y].err = NoErr
        /\ bs[Receiver(x)].fieldOperationTree.and # 0 \/ bs[Receiver(x)].fieldOperationTree.or # 0

---------------------------------------------------------------------------
(* The effect of one call (Spec).                                          *)

\* The pieces of state a call may change, by method.
Piece(m) ==
    CASE m = "From" -> "table"
      [] m \in {"Where", "And", "Or"} -> "chain"
      [] m = "Limit" -> "limit"
      [] OTHER -> "payload"

\* Builder j has the same piece of state as its receiver had when called.
SameTable(j) == bs[j].from = bs[Receiver(j)].from
SameChain(j) ==
    /\ bs[j].fieldOperationTree = bs[Receiver(j)].fieldOperationTree
    /\ hist[j].made = hist[Receiver(j)].made
SameLimit(j) == bs[j].limit = bs[Receiver(j)].limit
SamePayload(j) ==
    /\ bs[j].literalValue = bs[Receiver(j)].literalValue
    /\ bs[j].literalValues = bs[Receiver(j)].literalValues

(* C29: a fluent call on a builder without a deferred error either records *)
(* no error and changes nothing but the piece of state it is about (table, *)
(* predicate chain, limit or payload), or records an error and leaves      *)
(* table, predicate chain, limit and payload as they were.                 *)
C29_ChangeOrError ==
    \A j \in Builders :
        (Receiver(j) # 0 /\ bs[Receiver(j)].err = NoErr)
            => IF bs[j].err = NoErr
               THEN /\ Piece(hist[j].m) = "table" \/ SameTable(j)
                    /\ Piece(hist[j].m) = "chain" \/ SameChain(j)
                    /\ Piece(hist[j].m) = "limit" \/ SameLimit(j)
                    /\ Piece(hist[j].m) = "payload" \/ SamePayload(j)
               ELSE SameTable(j) /\ SameChain(j) /\ SameLimit(j) /\ SamePayload(j)

\* A second Where recorded an error on a builder that had a table, a
\* predicate and a limit or an assignment.
C29_Witness ==
    \E j \in Builders :
        /\ Receiver(j) # 0
        /\ bs[Receiver(j)].err = NoErr
        /\ bs[j].err = ErrDoubleWhereClause
        /\ bs[j].from.tableName # <<>>
        /\ bs[j].limit.set \/ bs[j].literalValue.set

---------------------------------------------------------------------------
(* Append against render (SpecTree).                                       *)

(* C30: the node to which And/Or attach a predicate is the last node the   *)
(* rendering emits, also in a chain in which a node has both links set:    *)
(* after an accepted And/Or the rendering is the rendering before the call *)
(* followed by the connective and the new predicate, so nothing rendered   *)
(* before disappears or moves.                                             *)
C30_AppendedIsRenderedLast ==
    \A j \in Builders :
        (hist[j].m \in {"And", "Or"} /\ bs[j].err = NoErr)
            => hist[j].made = Appended(hist[Receiver(j)].made, hist[j].m, hist[j].op)

\* An Or was accepted on a chain in which the node behind the root's
\* and-link has both links set, and the rendering grew by one predicate.
C30_Witness ==
    /\ Len(bs) >= 2
    /\ bs[2].err = NoErr
    /\ hist[2].m = "Or"
    /\ bs[1].fieldOperationTree.and # 0
    /\ heap[bs[1].fieldOperationTree.and].and # 0
    /\ heap[bs[1].fieldOperationTree.and].or # 0
    /\ Len(hist[2].made.args) = Len(hist[1].made.args) + 1

---------------------------------------------------------------------------
(* Claims about the whole statement (Spec, SpecExec, SpecTable).           *)

\* The calls of method m in j's chain, in call order.
CallsOf(j, m) == SelectSeq(Chain(j), LAMBDA k : hist[k].m = m)

(* C31: in the text an Update builds,  SET  comes before  WHERE  and the   *)
(* text ends with the predicate fragment; the arguments are the SET values *)
(* followed by the predicate values, whether SetStruct was called before   *)
(* or after Where/And/Or.                                                  *)
C31_SetBeforeWhere ==
    \A j \in Builders :
        LET r == Result(j)
            where == Rendered(j)
            sets == {i \in 1..Len(r.query) : r.query[i] = " SET "}
            wheres == {i \in 1..Len(r.query) : r.query[i] = " WHERE "}
        IN (bs[j].kind = "update" /\ r.err = NoErr /\ ~r.panic)
               => /\ Cardinality(sets) = 1
                  /\ \A s \in sets, w \in wheres : s < w
                  /\ EndsWith(r.query, where.query \o <<";">>)
                  /\ r.args = MappableValues(bs[j].T, bs[j].literalValue.v) \o where.args

\* An Update that builds with a predicate and SET values, whose SetStruct
\* call came after its Where call.
C31_Witness ==
    \E j \in Builders :
        /\ bs[j].kind = "update"
        /\ Succeeds(j)
        /\ Rendered(j).args # <<>>
        /\ MappableValues(bs[j].T, bs[j].literalValue.v) # <<>>
        /\ \E k \in 1..Len(CallsOf(j, "Where")), l \in 1..Len(CallsOf(j, "SetStruct")) :
               CallsOf(j, "Where")[k] < CallsOf(j, "SetStruct")[l]

\* The terminal operation was a Query that the handle answered with a
\* cursor that yields its rows without any error.
QueryRead ==
    /\ Ran
    /\ db.out[1].fn = "QueryContext"
    /\ db.reply # <<>>
    /\ db.reply[1].err = NoErr
    /\ db.reply[1].scanFails = 0
    /\ ~db.reply[1].iterErr

(* C32: a Query whose cursor yields n rows without error returns a         *)
(* sequence of n records, the i-th being the mapping of the i-th row (what *)
(* a read of a cursor holding that row alone returns).                     *)
C32_OneRecordPerRow ==
    QueryRead
        => LET T == bs[Len(bs)].T
               rows == db.reply[1].rows
               out == db.out[1]
           IN /\ ~out.panic
              /\ out.err = NoErr
              /\ Len(out.mapped) = Len(rows)
              /\ \A i \in DOMAIN rows :
                     <<out.mapped[i]>> = QueryContext(T, OneRow(rows[i])).mapped

\* The number of placeholders in the text q.
Points(q) == Len(SelectSeq(q, LAMBDA piece : piece = "?"))

\* The pieces of q before the first piece that is one of stops.
UpTo(q, stops) ==
    LET ends == {i \in DOMAIN q : q[i] \in stops}
        e == CHOOSE i \in ends : \A m \in ends : i <= m
    IN IF ends = {} THEN q ELSE SubSeq(q, 1, e - 1)

\* The predicates of the chain from the root t in the order buildQuery
\* visits them.
RECURSIVE WalkOps(_, _, _)
WalkOps(h, and, or) ==
    IF and = 0 /\ or = 0 THEN <<>>
    ELSE LET a == IF and # 0 THEN and ELSE or
         IN <<h[a].op>> \o WalkOps(h, h[a].and, h[a].or)

RenderedOps(t, h) ==
    IF t = emptyFieldOperationTree THEN <<>> ELSE <<t.op>> \o WalkOps(h, t.and, t.or)

\* The values a predicate compares its field with: the elements of a list,
\* or the one value.
ValuesOf(op) == IF op.ValueRaw.t = "[]any" THEN op.ValueRaw.s ELSE <<op.ValueRaw>>

\* The values of builder j's payload: Insert's rows one after the other,
\* Update's assignment record, each by its exported fields.
PayloadValues(j) ==
    CASE bs[j].kind = "insert" ->
             Flatten([i \in 1..Len(bs[j].literalValues) |->
                        MappableValues(bs[j].T, bs[j].literalValues[i])])
      [] bs[j].kind = "update" -> MappableValues(bs[j].T, bs[j].literalValue.v)
      [] OTHER -> <<>>

(* C33: in what BuildQuery returns on success, the text has as many        *)
(* placeholders as there are arguments, and the arguments are the payload  *)
(* or SET values, then the values of the rendered predicates in rendering  *)
(* order, then the limit, each part of the text holding as many            *)
(* placeholders as it has values.                                          *)
C33_PlaceholdersMatchArgs ==
    \A j \in Builders :
        LET r == Result(j)
            ops == RenderedOps(bs[j].fieldOperationTree, heap)
            payload == PayloadValues(j)
            preds == Flatten([k \in 1..Len(ops) |-> ValuesOf(ops[k])])
            limit == IF bs[j].limit.set THEN <<AnyUint64(bs[j].limit.n)>> ELSE <<>>
        IN (r.err = NoErr /\ ~r.panic)
               => /\ Points(r.query) = Len(r.args)
                  /\ r.args = payload \o preds \o limit
                  /\ Points(UpTo(r.query, {" WHERE ", " LIMIT "})) = Len(payload)
                  /\ Points(Rendered(j).query) = Len(preds)
                  /\ \A k \in 1..Len(ops) : Points(queryData(ops[k]).query) = Len(ValuesOf(ops[k]))

\* A build whose text holds a list predicate of two values, another
\* predicate and a limit.
C33_Witness ==
    \E j \in Builders :
        /\ Succeeds(j)
        /\ bs[j].limit.set
        /\ Len(RenderedOps(bs[j].fieldOperationTree, heap)) >= 2
        /\ \E k \in 1..Len(RenderedOps(bs[j].fieldOperationTree, heap)) :
               Len(ValuesOf(RenderedOps(bs[j].fieldOperationTree, heap)[k])) = 2
        /\ Len(Result(j).args) >= 4

\* A schema or table part: not empty and without separator.
NameParts == {s \in NameStrings : s # <<>> /\ Dots(s) = 0}

\* A table reference of the form "table" or "schema"."table".
WellFormed(ref) ==
    \/ \E t \in NameParts : ref = Quoted(t)
    \/ \E s \in NameParts, t \in NameParts : ref = Quoted(s) \o <<".">> \o Quoted(t)

\* Builder j with the table identifier its constructor gave it.
Unnamed(j) == [bs[j] EXCEPT !.from = NewBuilder(bs[j].kind, bs[j].T).from]

(* C34: when From/Into took a name without recording an error, on a        *)
(* builder that builds under the name of its record type, BuildQuery       *)
(* returns text (no error, no crash) whose table reference is "table" or   *)
(* "schema"."table" with both parts non-empty.                             *)
C34_AcceptedNameBuilds ==
    \A j \in Builders :
        (/\ hist[j].m = "From"
         /\ bs[j].err = NoErr
         /\ BuildQuery(Unnamed(j), heap).err = NoErr
         /\ ~BuildQuery(Unnamed(j), heap).panic)
            => /\ Succeeds(j)
               /\ WellFormed(TableReference(bs[j].kind, Result(j).query))

\* The records passed by the last call of method m in j's chain.
LastPayload(j, m) == hist[CallsOf(j, m)[Len(CallsOf(j, m))]].payload

(* C35: Values and SetStruct replace the payload and record no error.  The *)
(* builder either call returns carries the deferred error of its receiver. *)
(* After one or more Values calls, a builder without deferred error whose  *)
(* table reference renders returns NoInsertValues when the last call       *)
(* passed no record, and otherwise, when it builds, one group and the      *)
(* arguments per record of the last call.  After one or more SetStruct     *)
(* calls the SET arguments an Update builds are the values of the last     *)
(* record.                                                                 *)
C35_PayloadReplaced ==
    \A j \in Builders :
        LET T == bs[j].T
            r == Result(j)
        IN /\ hist[j].m \in {"Values", "SetStruct"} => bs[j].err = bs[Receiver(j)].err
           /\ (bs[j].kind = "insert" /\ CallsOf(j, "Values") # <<>>)
                  => LET ts == LastPayload(j, "Values")
                     IN /\ (/\ ts = <<>>
                            /\ bs[j].err = NoErr
                            /\ ~tableNameString(bs[j].from).panic)
                               => r = Failed(ErrNoInsertValues)
                        /\ (ts # <<>> /\ r.err = NoErr /\ ~r.panic)
                               => /\ r.args = Flatten([i \in 1..Len(ts) |->
                                                          MappableValues(T, ts[i])])
                                  /\ Points(r.query) = Len(ts) * Len(Mappable(T))
           /\ (/\ bs[j].kind = "update"
               /\ CallsOf(j, "SetStruct") # <<>>
               /\ r.err = NoErr
               /\ ~r.panic)
                  => LET t == LastPayload(j, "SetStruct")[1]
                     IN SubSeq(r.args, 1, Len(Mappable(T))) = MappableValues(T, t)

\* An Insert that builds after two Values calls, the first with two
\* records and the second with one.
C35_Witness ==
    \E j \in Builders :
        /\ bs[j].kind = "insert"
        /\ Succeeds(j)
        /\ Len(CallsOf(j, "Values")) >= 2
        /\ Len(hist[CallsOf(j, "Values")[1]].payload) = 2
        /\ Len(LastPayload(j, "Values")) = 1
        /\ Len(Result(j).args) = 2

---------------------------------------------------------------------------
(* Claims about resources: the shape of the chain (SpecConc) and the row   *)
(* cursor (SpecExec).                                                      *)

\* The addresses the node at a links to.
Links(h, a) == {h[a].and, h[a].or} \ {0}

\* The addresses reached from the set S by at most n further links.
RECURSIVE ReachFrom(_, _, _)
ReachFrom(h, S, n) ==
    IF n = 0 THEN S
    ELSE ReachFrom(h, S \cup UNION {Links(h, a) : a \in S}, n - 1)

\* No node of h is reached from itself, and every link is an address of h.
Acyclic(h) ==
    \A a \in DOMAIN h :
        /\ Links(h, a) \subseteq DOMAIN h
        /\ a \notin ReachFrom(h, Links(h, a), Len(h))

\* The number of nodes the loop of buildQuery and of
\* appendToFieldOperationTree visits below a root with these links, the
\* loop being cut off after fuel nodes.
RECURSIVE WalkSteps(_, _, _, _)
WalkSteps(h, and, or, fuel) ==
    IF (and = 0 /\ or = 0) \/ fuel = 0 THEN 0
    ELSE LET a == IF and # 0 THEN and ELSE or
         IN 1 + WalkSteps(h, h[a].and, h[a].or, fuel - 1)

\* The Where, And and Or calls made so far, on any builder.
PredicateCalls == {k \in Builders : IsPredicateCall(k)}

(* C36: at every point of every interleaving the heap of chain nodes is    *)
(* acyclic, so the walk from every builder's root ends within as many      *)
(* nodes as the heap holds, and the rendering of a builder lists at most   *)
(* as many predicates as Where/And/Or calls were made.                     *)
C36_ChainFinite ==
    /\ Acyclic(heap)
    /\ \A j \in Builders :
           LET t == bs[j].fieldOperationTree
           IN /\ WalkSteps(heap, t.and, t.or, Len(heap) + 1) <= Len(heap)
              /\ Len(RenderedOps(t, heap)) <= Cardinality(PredicateCalls)

\* Both goroutines have returned, one node of the shared chain has both
\* links set, and a builder renders at least three predicates.
C36_Witness ==
    /\ th # <<>>
    /\ \A t \in Threads : th[t].pc = "done"
    /\ \E a \in DOMAIN heap : heap[a].and # 0 /\ heap[a].or # 0
    /\ \E j \in Builders : Len(RenderedOps(bs[j].fieldOperationTree, heap)) >= 3

\* The terminal operation was a read, the handle gave it a cursor, and the
\* read returned.
CursorObtained == ReadReturned /\ db.reply[1].err = NoErr

(* C37: when a read obtained a cursor from the handle and returned, with   *)
(* its records or with the error of a failed scan, the cursor is released  *)
(* (exhausted or closed).                                                  *)
C37_CursorReleased ==
    CursorObtained => ~db.out[1].open

====
